---- MODULE Spec2Model ----
(***************************************************************************)
(* String Analyzer Service.                                                *)
(*                                                                         *)
(* The repository holds two implementations side by side:                  *)
(*   - main.py: the FastAPI application (analysis helpers, the query       *)
(*     parser, apply_filters and the endpoints over string_storage);       *)
(*   - utils/analyzer.py, services/storage.py, services/nlp_parser.py and  *)
(*     models.py: the service layer over the module-level STORE.           *)
(* Both are modelled.  A Python str is a sequence of one-character         *)
(* strings; a dict is a sequence of entries in insertion order.            *)
(***************************************************************************)
EXTENDS Integers, Sequences, FiniteSets, TLC

VARIABLES
    string_storage, \* main.py:12, dict id -> record, in insertion order
    STORE,          \* services/storage.py:7, dict id -> StringAnalysisResult
    now,            \* the reading datetime.utcnow() returns
    last,           \* the last call made and what it returned or raised
    query,          \* the text handed to the query parsers
    parsed,         \* what a parser returned for query
    req,            \* the value the concurrent create callers carry
    callers         \* each concurrent create caller's position and outcome

vars == <<string_storage, STORE, now, last, query, parsed, req, callers>>

----------------------------------------------------------------------------
(* Bounds *)

\* datetime.utcnow() reads 0..MaxClock
MaxClock == 1

\* a query text is made of at most MaxPhrases phrases
MaxPhrases == 2

\* number of concurrent create callers
NumCallers == 3

----------------------------------------------------------------------------
(* Python str, as sequences of characters *)

UpperChars ==
    <<"A", "B", "C", "D", "E", "F", "G", "H", "I", "J", "K", "L", "M",
      "N", "O", "P", "Q", "R", "S", "T", "U", "V", "W", "X", "Y", "Z">>

LowerChars ==
    <<"a", "b", "c", "d", "e", "f", "g", "h", "i", "j", "k", "l", "m",
      "n", "o", "p", "q", "r", "s", "t", "u", "v", "w", "x", "y", "z">>

DigitChars == <<"0", "1", "2", "3", "4", "5", "6", "7", "8", "9">>

Range(s) == {s[i] : i \in DOMAIN s}

UpperSet == Range(UpperChars)

LowerSet == Range(LowerChars)

DigitSet == Range(DigitChars)

IsUpper(c) == c \in UpperSet

\* [a-z] on one character
IsLower(c) == c \in LowerSet

\* str.isdigit / \d on one character
IsDigit(c) == c \in DigitSet

\* str.isalpha on one character
IsAlpha(c) == IsUpper(c) \/ IsLower(c)

\* str.isalnum on one character
IsAlnum(c) == IsAlpha(c) \/ IsDigit(c)

\* the characters str.split() and \s treat as whitespace
IsSpace(c) == c \in {" ", "\t", "\n", "\r", "\f"}

LowerChar(c) ==
    IF IsUpper(c)
    THEN LowerChars[CHOOSE i \in DOMAIN UpperChars : UpperChars[i] = c]
    ELSE c

\* str.lower()
Lower(s) == <<>> \o [i \in DOMAIN s |-> LowerChar(s[i])]

\* s[::-1]
Reverse(s) == <<>> \o [i \in DOMAIN s |-> s[Len(s) + 1 - i]]

\* s.startswith(p, i), i counted from 0
StartsAt(s, p, i) ==
    /\ i + Len(p) <= Len(s)
    /\ SubSeq(s, i + 1, i + Len(p)) = p

\* sub in s
Contains(s, sub) == \E i \in 0..Len(s) : StartsAt(s, sub, i)

\* the number of leading whitespace characters of s[i:]
RECURSIVE SpaceRun(_, _)
SpaceRun(s, i) ==
    IF i < Len(s) /\ IsSpace(s[i + 1]) THEN 1 + SpaceRun(s, i + 1) ELSE 0

\* the number of leading non-whitespace characters of s[i:]
RECURSIVE WordRun(_, _)
WordRun(s, i) ==
    IF i < Len(s) /\ ~IsSpace(s[i + 1]) THEN 1 + WordRun(s, i + 1) ELSE 0

\* the number of leading decimal digits of s[i:]
RECURSIVE DigitRun(_, _)
DigitRun(s, i) ==
    IF i < Len(s) /\ IsDigit(s[i + 1]) THEN 1 + DigitRun(s, i + 1) ELSE 0

\* str.split(): the maximal runs of non-whitespace, left to right
RECURSIVE SplitFrom(_, _)
SplitFrom(s, i) ==
    LET sp == SpaceRun(s, i)
        w  == WordRun(s, i + sp)
    IN  IF w = 0 THEN <<>>
        ELSE <<SubSeq(s, i + sp + 1, i + sp + w)>> \o SplitFrom(s, i + sp + w)

Split(s) == SplitFrom(s, 0)

DigitVal(c) == (CHOOSE i \in DOMAIN DigitChars : DigitChars[i] = c) - 1

\* int(s) for a run of decimal digits
RECURSIVE ParseInt(_)
ParseInt(s) ==
    IF s = <<>> THEN 0
    ELSE 10 * ParseInt(SubSeq(s, 1, Len(s) - 1)) + DigitVal(s[Len(s)])

----------------------------------------------------------------------------
(* Python dict, as a sequence of entries [id, ...] in insertion order *)

Keys(d) == {d[i].id : i \in DOMAIN d}

Lookup(d, k) == d[CHOOSE i \in DOMAIN d : d[i].id = k]

\* d[k] = rec: replaces in place when k is a key, appends otherwise
DictSet(d, k, rec) ==
    IF k \in Keys(d)
    THEN [i \in DOMAIN d |-> IF d[i].id = k THEN rec ELSE d[i]]
    ELSE Append(d, rec)

\* a delete that reports success and leaves the entry in place
DictDelKeeps(d, k) == d

\* del d[k]
DictDel(d, k) == SelectSeq(d, LAMBDA e : e.id # k)

----------------------------------------------------------------------------
(* The values the callers send *)

Values == { <<"a">>, <<"A", ",">>, <<"a", " ", "a">> }

\* hashlib.sha256(text.encode("utf-8")).hexdigest(), on Values
compute_sha256(text) ==
    CASE text = <<"a">> ->
           "ca978112ca1bbdcafac231b39a23dc4da786eff8147c4e72b9807785afee48bb"
      [] text = <<"A", ",">> ->
           "27cb7fbe7fa5e8b5c0b8d9cb27cff09ed8933390ddb345018da0ced710e285f9"
      [] text = <<"a", " ", "a">> ->
           "3d5fd6b1cde48def66c78708431808b9e2abb1363140a3c9f564a554f1ee9621"

----------------------------------------------------------------------------
(* main.py: analysis helpers *)

is_palindrome(text) ==
    LET cleaned == SelectSeq(Lower(text), LAMBDA c : c # " ")
    IN  cleaned = Reverse(cleaned)

count_unique_characters(text) == Cardinality(Range(text))

count_words(text) == Len(Split(text))

RECURSIVE character_frequency(_)
character_frequency(text) ==
    IF text = <<>> THEN <<>>
    ELSE LET freq_map == character_frequency(SubSeq(text, 1, Len(text) - 1))
             char     == text[Len(text)]
         IN  [c \in DOMAIN freq_map \cup {char} |->
                IF c = char
                THEN (IF c \in DOMAIN freq_map THEN freq_map[c] ELSE 0) + 1
                ELSE freq_map[c]]

\* created_at is the clock reading; isoformat() + "Z" only renders it
analyze_string(value, utcnow) ==
    [ id         |-> compute_sha256(value),
      value      |-> value,
      properties |->
        [ length                  |-> Len(value),
          is_palindrome           |-> is_palindrome(value),
          unique_characters       |-> count_unique_characters(value),
          word_count              |-> count_words(value),
          sha256_hash             |-> compute_sha256(value),
          character_frequency_map |-> character_frequency(value) ],
      created_at |-> utcnow ]

----------------------------------------------------------------------------
(* utils/analyzer.py *)

utils_analyze_string(s) ==
    LET normalized_s == Lower(SelectSeq(s, IsAlnum))
    IN  [ length                |-> Len(s),
          is_palindrome         |-> normalized_s = Reverse(normalized_s),
          unique_characters     |-> Cardinality(Range(s)),
          word_count            |-> Len(Split(s)),
          sha256_hash           |-> compute_sha256(s),
          character_frequencies |-> character_frequency(s) ]

----------------------------------------------------------------------------
(* models.py: StringAnalysisResult, as pydantic validates its construction *)

\* the fields of StringAnalysisResult: id is declared with an alias and no
\* default, created_at has a default_factory
StringAnalysisResultFields ==
    { [name |-> "id",         alias |-> "sha256_hash_value", required |-> TRUE],
      [name |-> "properties", alias |-> "properties",        required |-> TRUE],
      [name |-> "created_at", alias |-> "created_at",        required |-> FALSE] }

\* the class sets no Config / model_config, so pydantic populates a field
\* from its alias only, never from its attribute name
populate_by_name == FALSE

\* whether StringAnalysisResult(**kwargs) validates, kwargs the keyword names
StringAnalysisResultValidates(kwargs) ==
    \A f \in StringAnalysisResultFields :
        f.required =>
            \/ f.alias \in kwargs
            \/ populate_by_name /\ f.name \in kwargs

----------------------------------------------------------------------------
(* Filter specifications *)

\* a query parameter, or a dict entry, is <<>> when absent and <<x>> when x
Params ==
    [ is_palindrome      : {<<>>, <<TRUE>>, <<FALSE>>},
      min_length         : {<<>>, <<2>>},
      max_length         : {<<>>, <<2>>},
      word_count         : {<<>>, <<1>>},
      contains_character : {<<>>, <<(<<"a">>)>>, <<(<<"A">>)>>} ]

Entry(key, param) == IF param = <<>> THEN <<>> ELSE <<(<<key, param[1]>>)>>

\* main.py get_all_strings: the filters dict, in the order it is filled
CollectFilters(p) ==
    Entry("is_palindrome", p.is_palindrome)
      \o Entry("min_length", p.min_length)
      \o Entry("max_length", p.max_length)
      \o Entry("word_count", p.word_count)
      \o Entry("contains_character", p.contains_character)

\* the filters dict a caller of StorageService.get_all_strings passes, under
\* the keys that method reads
StorageFilters(p) ==
    Entry("is_palindrome", p.is_palindrome)
      \o Entry("min_length", p.min_length)
      \o Entry("max_length", p.max_length)
      \o Entry("word_count", p.word_count)
      \o Entry("contains", p.contains_character)

HasKey(filters, key) == \E i \in DOMAIN filters : filters[i][1] = key

Get(filters, key) ==
    filters[CHOOSE i \in DOMAIN filters : filters[i][1] = key][2]

\* apply_filters with min_length as a strict bound
ApplyOneStrictMin(filtered_data, key, value) ==
    CASE key = "is_palindrome" ->
           SelectSeq(filtered_data,
                     LAMBDA item : item.properties.is_palindrome = value)
      [] key = "min_length" ->
           SelectSeq(filtered_data,
                     LAMBDA item : item.properties.length > value)
      [] key = "max_length" ->
           SelectSeq(filtered_data,
                     LAMBDA item : item.properties.length <= value)
      [] key = "word_count" ->
           SelectSeq(filtered_data,
                     LAMBDA item : item.properties.word_count = value)
      [] key = "contains_character" ->
           SelectSeq(filtered_data, LAMBDA item : Contains(item.value, value))
      [] OTHER -> filtered_data

\* apply_filters with contains_character compared without regard to case
ApplyOneIgnoreCase(filtered_data, key, value) ==
    CASE key = "is_palindrome" ->
           SelectSeq(filtered_data,
                     LAMBDA item : item.properties.is_palindrome = value)
      [] key = "min_length" ->
           SelectSeq(filtered_data,
                     LAMBDA item : item.properties.length >= value)
      [] key = "max_length" ->
           SelectSeq(filtered_data,
                     LAMBDA item : item.properties.length <= value)
      [] key = "word_count" ->
           SelectSeq(filtered_data,
                     LAMBDA item : item.properties.word_count = value)
      [] key = "contains_character" ->
           SelectSeq(filtered_data,
                     LAMBDA item : Contains(Lower(item.value), Lower(value)))
      [] OTHER -> filtered_data

\* main.py apply_filters, one key of the loop
ApplyOne(filtered_data, key, value) ==
    CASE key = "is_palindrome" ->
           SelectSeq(filtered_data,
                     LAMBDA item : item.properties.is_palindrome = value)
      [] key = "min_length" ->
           SelectSeq(filtered_data,
                     LAMBDA item : item.properties.length >= value)
      [] key = "max_length" ->
           SelectSeq(filtered_data,
                     LAMBDA item : item.properties.length <= value)
      [] key = "word_count" ->
           SelectSeq(filtered_data,
                     LAMBDA item : item.properties.word_count = value)
      [] key = "contains_character" ->
           SelectSeq(filtered_data, LAMBDA item : Contains(item.value, value))
      [] OTHER -> filtered_data

RECURSIVE apply_filters(_, _)
apply_filters(data, filters) ==
    IF filters = <<>> THEN data
    ELSE apply_filters(ApplyOne(data, Head(filters)[1], Head(filters)[2]),
                       Tail(filters))

\* services/storage.py get_all_strings, the body of the loop
StorageMatch(analysis, filters) ==
    LET props == analysis.properties
    IN  /\ ~(/\ HasKey(filters, "is_palindrome")
             /\ props.is_palindrome # Get(filters, "is_palindrome"))
        /\ ~(/\ HasKey(filters, "min_length")
             /\ props.length < Get(filters, "min_length"))
        /\ ~(/\ HasKey(filters, "max_length")
             /\ props.length > Get(filters, "max_length"))
        /\ ~(/\ HasKey(filters, "word_count")
             /\ props.word_count # Get(filters, "word_count"))
        /\ ~(/\ HasKey(filters, "contains")
             /\ ~(\E c \in DOMAIN props.character_frequencies :
                     <<c>> = Get(filters, "contains")))

storage_get_all_strings(store, filters) ==
    SelectSeq(store, LAMBDA analysis : StorageMatch(analysis, filters))

----------------------------------------------------------------------------
(* The texts the parsers look for *)

\* "palindrom"
T_palindrom ==
    <<"p", "a", "l", "i", "n", "d", "r", "o", "m">>

\* "palindrome"
T_palindrome ==
    <<"p", "a", "l", "i", "n", "d", "r", "o", "m", "e">>

\* "palindromic"
T_palindromic ==
    <<"p", "a", "l", "i", "n", "d", "r", "o", "m", "i", "c">>

\* "single word"
T_single_word ==
    <<"s", "i", "n", "g", "l", "e", " ", "w", "o", "r", "d">>

\* "one word"
T_one_word ==
    <<"o", "n", "e", " ", "w", "o", "r", "d">>

\* "two word"
T_two_word ==
    <<"t", "w", "o", " ", "w", "o", "r", "d">>

\* "two words"
T_two_words ==
    <<"t", "w", "o", " ", "w", "o", "r", "d", "s">>

\* "2 word"
T_2_word ==
    <<"2", " ", "w", "o", "r", "d">>

\* "word"
T_word ==
    <<"w", "o", "r", "d">>

\* "longer than "
T_longer_than ==
    <<"l", "o", "n", "g", "e", "r", " ", "t", "h", "a", "n", " ">>

\* "shorter than "
T_shorter_than ==
    <<"s", "h", "o", "r", "t", "e", "r", " ", "t", "h", "a", "n", " ">>

\* "contain"
T_contain ==
    <<"c", "o", "n", "t", "a", "i", "n">>

\* "ing"
T_ing ==
    <<"i", "n", "g">>

\* "s"
T_s ==
    <<"s">>

\* "the"
T_the ==
    <<"t", "h", "e">>

\* "letter"
T_letter ==
    <<"l", "e", "t", "t", "e", "r">>

\* "first vowel"
T_first_vowel ==
    <<"f", "i", "r", "s", "t", " ", "v", "o", "w", "e", "l">>

\* "longer"
T_longer ==
    <<"l", "o", "n", "g", "e", "r">>

\* "shorter"
T_shorter ==
    <<"s", "h", "o", "r", "t", "e", "r">>

\* "than"
T_than ==
    <<"t", "h", "a", "n">>

\* "contains"
T_contains ==
    <<"c", "o", "n", "t", "a", "i", "n", "s">>

\* "containing the letter"
T_containing_the_letter ==
    <<"c", "o", "n", "t", "a", "i", "n", "i", "n", "g", " ", "t", "h", "e", " ", "l", "e", "t", "t", "e", "r">>

----------------------------------------------------------------------------
(* The filters dict a parser builds: entries <<key, value>> in insertion order *)

\* filters[key] = value
FSet(filters, key, value) ==
    IF \E i \in DOMAIN filters : filters[i][1] = key
    THEN [i \in DOMAIN filters |->
            IF filters[i][1] = key THEN <<key, value>> ELSE filters[i]]
    ELSE Append(filters, <<key, value>>)

\* the leftmost of a set of positions
Leftmost(S) == CHOOSE i \in S : \A j \in S : i <= j

----------------------------------------------------------------------------
(* main.py: parse_natural_language_query *)

\* re.search(r"(\d+)\s+word", q): the start positions that match.  \d+ and
\* \s+ are greedy and what follows either cannot start with a character of
\* its class, so a start matches iff its whole digit run, then its whole
\* whitespace run, is followed by "word".
WordCountStarts(q) ==
    { i \in 0..(Len(q) - 1) :
        LET d  == DigitRun(q, i)
            sp == SpaceRun(q, i + d)
        IN  d >= 1 /\ sp >= 1 /\ StartsAt(q, T_word, i + d + sp) }

\* re.search(prefix + r"(\d+)", q): the start positions that match
NumberAfterStarts(q, prefix) ==
    { i \in 0..(Len(q) - 1) :
        StartsAt(q, prefix, i) /\ DigitRun(q, i + Len(prefix)) >= 1 }

\* int(match.group(1)) of the leftmost match of prefix + r"(\d+)"
NumberAfter(q, prefix) ==
    LET i == Leftmost(NumberAfterStarts(q, prefix)) + Len(prefix)
    IN  ParseInt(SubSeq(q, i + 1, i + DigitRun(q, i)))

\* [a-z] at position p: <<c>>, or <<>> when there is none
LetterAt(q, p) ==
    IF p < Len(q) /\ IsLower(q[p + 1]) THEN <<q[p + 1]>> ELSE <<>>

\* word then \s+ at position p: the position after it, or -1
WordThenSpace(q, word, p) ==
    IF StartsAt(q, word, p) /\ SpaceRun(q, p + Len(word)) >= 1
    THEN p + Len(word) + SpaceRun(q, p + Len(word))
    ELSE -1

\* (?:the\s+)?(?:letter\s+)?([a-z]) at position p, as the regex engine tries
\* it: each optional group taken first, given up when the rest fails
ContainTail(q, p) ==
    LET the        == WordThenSpace(q, T_the, p)
        the_letter == IF the >= 0 THEN WordThenSpace(q, T_letter, the) ELSE -1
        letter     == WordThenSpace(q, T_letter, p)
    IN  IF the_letter >= 0 /\ LetterAt(q, the_letter) # <<>>
             THEN LetterAt(q, the_letter)
        ELSE IF the >= 0 /\ LetterAt(q, the) # <<>>
             THEN LetterAt(q, the)
        ELSE IF letter >= 0 /\ LetterAt(q, letter) # <<>>
             THEN LetterAt(q, letter)
        ELSE LetterAt(q, p)

\* \s+ and the tail at position p, p the end of "contain", "containing" or
\* "contains"
ContainRest(q, p) ==
    IF SpaceRun(q, p) >= 1 THEN ContainTail(q, p + SpaceRun(q, p)) ELSE <<>>

\* contain(?:ing|s)?\s+(?:the\s+)?(?:letter\s+)?([a-z]) from position i:
\* group 1, or <<>> when the pattern does not match there
ContainAt(q, i) ==
    LET p == i + Len(T_contain)
    IN  IF ~StartsAt(q, T_contain, i) THEN <<>>
        ELSE IF StartsAt(q, T_ing, p) /\ ContainRest(q, p + Len(T_ing)) # <<>>
             THEN ContainRest(q, p + Len(T_ing))
        ELSE IF StartsAt(q, T_s, p) /\ ContainRest(q, p + Len(T_s)) # <<>>
             THEN ContainRest(q, p + Len(T_s))
        ELSE ContainRest(q, p)

ContainStarts(q) == { i \in 0..(Len(q) - 1) : ContainAt(q, i) # <<>> }

parse_natural_language_query(text) ==
    LET query_lower == Lower(text)
        f0 == <<>>
        f1 == IF Contains(query_lower, T_palindrom)
              THEN FSet(f0, "is_palindrome", TRUE) ELSE f0
        f2 == IF Contains(query_lower, T_single_word)
                   THEN FSet(f1, "word_count", 1)
              ELSE IF \/ Contains(query_lower, T_two_word)
                      \/ Contains(query_lower, T_2_word)
                   THEN FSet(f1, "word_count", 2)
              ELSE IF WordCountStarts(query_lower) # {}
                   THEN LET i == Leftmost(WordCountStarts(query_lower))
                        IN  FSet(f1, "word_count",
                                 ParseInt(SubSeq(query_lower, i + 1,
                                     i + DigitRun(query_lower, i))))
              ELSE f1
        f3 == IF NumberAfterStarts(query_lower, T_longer_than) # {}
              THEN FSet(f2, "min_length",
                        NumberAfter(query_lower, T_longer_than) + 1)
              ELSE f2
        f4 == IF NumberAfterStarts(query_lower, T_shorter_than) # {}
              THEN FSet(f3, "max_length",
                        NumberAfter(query_lower, T_shorter_than) - 1)
              ELSE f3
        f5 == IF ContainStarts(query_lower) # {}
              THEN FSet(f4, "contains_character",
                        ContainAt(query_lower,
                                  Leftmost(ContainStarts(query_lower))))
              ELSE f4
        f6 == IF Contains(query_lower, T_first_vowel)
              THEN FSet(f5, "contains_character", <<"a">>) ELSE f5
    IN  f6

----------------------------------------------------------------------------
(* services/nlp_parser.py: parse_natural_language_query *)

\* whether int(w) returns: an optional sign, then decimal digits
IntParses(w) ==
    LET digits == IF w # <<>> /\ w[1] \in {"+", "-"} THEN Tail(w) ELSE w
    IN  digits # <<>> /\ \A i \in DOMAIN digits : IsDigit(digits[i])

\* int(w), where it returns
PyInt(w) ==
    IF w[1] = "-" THEN 0 - ParseInt(Tail(w))
    ELSE IF w[1] = "+" THEN ParseInt(Tail(w))
    ELSE ParseInt(w)

\* the loop over enumerate(words), from index i (from 1 here); a ValueError
\* of int() leaves the filters as they were and the loop goes on
RECURSIVE LengthLoop(_, _, _)
LengthLoop(words, i, filters) ==
    IF i > Len(words) THEN filters
    ELSE LET third == i + 2 <= Len(words) /\ words[i + 1] = T_than
             f == IF words[i] = T_longer /\ third
                       THEN IF IntParses(words[i + 2])
                            THEN FSet(filters, "min_length",
                                      PyInt(words[i + 2]))
                            ELSE filters
                  ELSE IF words[i] = T_shorter /\ third
                       THEN IF IntParses(words[i + 2])
                            THEN FSet(filters, "max_length",
                                      PyInt(words[i + 2]))
                            ELSE filters
                  ELSE filters
         IN  LengthLoop(words, i + 1, f)

\* words[words.index("letter") + 1].strip(), <<>> on IndexError or ValueError
WordAfterLetter(words) ==
    LET at == { i \in DOMAIN words : words[i] = T_letter }
    IN  IF at = {} THEN <<>>
        ELSE IF Leftmost(at) + 1 > Len(words) THEN <<>>
        ELSE words[Leftmost(at) + 1]

nlp_parse_natural_language_query(text) ==
    LET q  == Lower(text)
        f0 == <<>>
        f1 == IF Contains(q, T_palindrome) \/ Contains(q, T_palindromic)
              THEN FSet(f0, "is_palindrome", TRUE) ELSE f0
        f2 == IF Contains(q, T_single_word) \/ Contains(q, T_one_word)
                   THEN FSet(f1, "word_count", 1)
              ELSE IF Contains(q, T_two_words)
                   THEN FSet(f1, "word_count", 2)
              ELSE f1
        words == Split(q)
        f3 == LengthLoop(words, 1, f2)
        f4 == IF Contains(q, T_first_vowel) /\ Contains(q, T_contains)
              THEN FSet(f3, "contains_character", <<"a">>) ELSE f3
        char == WordAfterLetter(words)
        f5 == IF /\ Contains(q, T_containing_the_letter)
                 /\ Len(char) = 1
                 /\ IsAlpha(char[1])
              THEN FSet(f4, "contains_character", char) ELSE f4
    IN  f5

----------------------------------------------------------------------------
(* The query texts: up to MaxPhrases phrases, joined by single spaces *)

Phrases ==
    << <<"s", "t", "r", "i", "n", "g", "s">>,
       <<"p", "a", "l", "i", "n", "d", "r", "o", "m", "i", "c">>,
       <<"s", "i", "n", "g", "l", "e", " ", "w", "o", "r", "d">>,
       <<"o", "n", "e", " ", "w", "o", "r", "d">>,
       <<"t", "w", "o", " ", "w", "o", "r", "d">>,
       <<"t", "w", "o", " ", "w", "o", "r", "d", "s">>,
       <<"2", " ", "w", "o", "r", "d">>,
       <<"3", " ", "w", "o", "r", "d", "s">>,
       <<"L", "o", "n", "g", "e", "r", " ", "t", "h", "a", "n", " ", "1", "0">>,
       <<"s", "h", "o", "r", "t", "e", "r", " ", "t", "h", "a", "n", " ", "5">>,
       <<"c", "o", "n", "t", "a", "i", "n", "s", " ", "f", "i", "r", "s", "t", " ", "v", "o", "w", "e", "l">>,
       <<"c", "o", "n", "t", "a", "i", "n", "i", "n", "g", " ", "t", "h", "e", " ", "l", "e", "t", "t", "e", "r", " ", "z">> >>

RECURSIVE Join(_)
Join(ps) ==
    IF Len(ps) = 0 THEN <<>>
    ELSE IF Len(ps) = 1 THEN Phrases[ps[1]]
    ELSE Phrases[ps[1]] \o <<" ">> \o Join(Tail(ps))

Queries ==
    { Join(ps) : ps \in UNION { [1..n -> DOMAIN Phrases] : n \in 1..MaxPhrases } }

----------------------------------------------------------------------------
(* What a call returned or raised *)

NoParams ==
    [ is_palindrome |-> <<>>, min_length |-> <<>>, max_length |-> <<>>,
      word_count |-> <<>>, contains_character |-> <<>> ]

\* status: the HTTP status sent (0 for a service-layer call, which has none);
\* outcome: what the body of the call did; data: the records handed back
Result(svc, op, value, params, status, outcome, data) ==
    [ svc |-> svc, op |-> op, value |-> value, params |-> params,
      status |-> status, outcome |-> outcome, data |-> data ]

NoCall == Result("none", "none", <<>>, NoParams, 0, "none", <<>>)

NoCallers == <<>>

----------------------------------------------------------------------------
(* main.py: the endpoints.  Each is a coroutine with no await in its body,
   so the event loop runs it to its end as one step. *)

\* a create that stores the fresh analysis whether or not the id is present
create_string_upsert(storage, value, utcnow) ==
    LET sha256_hash   == compute_sha256(value)
        analyzed_data == analyze_string(value, utcnow)
    IN  [ storage |-> DictSet(storage, sha256_hash, analyzed_data),
          status  |-> IF sha256_hash \in Keys(storage) THEN 400 ELSE 201,
          outcome |-> IF sha256_hash \in Keys(storage)
                      THEN "raised HTTPException(409)" ELSE "returned",
          data    |-> IF sha256_hash \in Keys(storage)
                      THEN <<>> ELSE <<analyzed_data>> ]

\* POST /strings.  The HTTPException(409) is raised inside the try block and
\* caught by its "except Exception" clause, which sends status 400.
create_string_effect(storage, value, utcnow) ==
    LET sha256_hash == compute_sha256(value)
    IN  IF sha256_hash \in Keys(storage)
        THEN [ storage |-> storage, status |-> 400,
               outcome |-> "raised HTTPException(409)", data |-> <<>> ]
        ELSE LET analyzed_data == analyze_string(value, utcnow)
             IN  [ storage |-> DictSet(storage, sha256_hash, analyzed_data),
                   status  |-> 201,
                   outcome |-> "returned",
                   data    |-> <<analyzed_data>> ]

create_string(value) ==
    LET r == create_string_effect(string_storage, value, now)
    IN  /\ string_storage' = r.storage
        /\ last' = Result("main", "create", value, NoParams,
                          r.status, r.outcome, r.data)
        /\ UNCHANGED <<STORE, now, query, parsed, req, callers>>

\* GET /strings/{string_value}
get_string(string_value) ==
    LET sha256_hash == compute_sha256(string_value)
    IN  /\ last' =
             IF sha256_hash \notin Keys(string_storage)
             THEN Result("main", "get", string_value, NoParams,
                         404, "raised HTTPException(404)", <<>>)
             ELSE Result("main", "get", string_value, NoParams,
                         200, "returned",
                         <<Lookup(string_storage, sha256_hash)>>)
        /\ UNCHANGED <<string_storage, STORE, now, query, parsed, req, callers>>

\* GET /strings
get_all_strings(p) ==
    LET filters          == CollectFilters(p)
        all_strings      == string_storage
        filtered_strings == apply_filters(all_strings, filters)
    IN  /\ last' = Result("main", "list", <<>>, p,
                          200, "returned", filtered_strings)
        /\ UNCHANGED <<string_storage, STORE, now, query, parsed, req, callers>>

\* DELETE /strings/{string_value}
delete_string(string_value) ==
    LET sha256_hash == compute_sha256(string_value)
    IN  /\ IF sha256_hash \notin Keys(string_storage)
           THEN /\ last' = Result("main", "delete", string_value, NoParams,
                                  404, "raised HTTPException(404)", <<>>)
                /\ UNCHANGED string_storage
           ELSE /\ string_storage' = DictDel(string_storage, sha256_hash)
                /\ last' = Result("main", "delete", string_value, NoParams,
                                  204, "returned", <<>>)
        /\ UNCHANGED <<STORE, now, query, parsed, req, callers>>

----------------------------------------------------------------------------
(* services/storage.py: StorageService *)

\* create_string, lines 18-21: analyse and look the id up
storage_create_check(store, value) ==
    LET properties == utils_analyze_string(value)
        string_id  == properties.sha256_hash
    IN  string_id \in Keys(store)

\* create_string, lines 22-26: build the result and store it.  The result is
\* built with the keywords id, properties and created_at.
storage_create_insert(store, value, utcnow) ==
    LET properties == utils_analyze_string(value)
        string_id  == properties.sha256_hash
        analysis_result ==
            [ id |-> string_id, properties |-> properties,
              created_at |-> utcnow ]
    IN  IF StringAnalysisResultValidates({"id", "properties", "created_at"})
        THEN [ store |-> DictSet(store, string_id, analysis_result),
               outcome |-> "returned", data |-> <<analysis_result>> ]
        ELSE [ store |-> store,
               outcome |-> "raised ValidationError", data |-> <<>> ]

\* create_string called by one caller at a time
storage_create_string(value) ==
    LET r == IF storage_create_check(STORE, value)
             THEN [ store |-> STORE, outcome |-> "raised ValueError",
                    data |-> <<>> ]
             ELSE storage_create_insert(STORE, value, now)
    IN  /\ STORE' = r.store
        /\ last' = Result("storage", "create", value, NoParams,
                          0, r.outcome, r.data)
        /\ UNCHANGED <<string_storage, now, query, parsed, req, callers>>

storage_get_string_by_id(value) ==
    LET string_id == compute_sha256(value)
    IN  /\ last' =
             IF string_id \in Keys(STORE)
             THEN Result("storage", "get", value, NoParams,
                         0, "returned", <<Lookup(STORE, string_id)>>)
             ELSE Result("storage", "get", value, NoParams,
                         0, "returned None", <<>>)
        /\ UNCHANGED <<string_storage, STORE, now, query, parsed, req, callers>>

storage_delete_string_by_id(value) ==
    LET string_id == compute_sha256(value)
    IN  /\ IF string_id \in Keys(STORE)
           THEN /\ STORE' = DictDel(STORE, string_id)
                /\ last' = Result("storage", "delete", value, NoParams,
                                  0, "returned True", <<>>)
           ELSE /\ UNCHANGED STORE
                /\ last' = Result("storage", "delete", value, NoParams,
                                  0, "returned False", <<>>)
        /\ UNCHANGED <<string_storage, now, query, parsed, req, callers>>

storage_get_all(p) ==
    /\ last' = Result("storage", "list", <<>>, p, 0, "returned",
                      storage_get_all_strings(STORE, StorageFilters(p)))
    /\ UNCHANGED <<string_storage, STORE, now, query, parsed, req, callers>>

\* datetime.utcnow() moves on
Tick ==
    /\ now < MaxClock
    /\ now' = now + 1
    /\ UNCHANGED <<string_storage, STORE, last, query, parsed, req, callers>>

----------------------------------------------------------------------------
(* The service, one call at a time *)

Init ==
    /\ string_storage = <<>>
    /\ STORE = <<>>
    /\ now = 0
    /\ last = NoCall
    /\ query = <<>>
    /\ parsed = <<>>
    /\ req = <<>>
    /\ callers = NoCallers

Next ==
    \/ \E value \in Values : create_string(value)
    \/ \E value \in Values : get_string(value)
    \/ \E p \in Params : get_all_strings(p)
    \/ \E value \in Values : delete_string(value)
    \/ \E value \in Values : storage_create_string(value)
    \/ \E value \in Values : storage_get_string_by_id(value)
    \/ \E value \in Values : storage_delete_string_by_id(value)
    \/ \E p \in Params : storage_get_all(p)
    \/ Tick

Spec == Init /\ [][Next]_vars

----------------------------------------------------------------------------
(* The query parsers *)

\* GET /strings/filter-by-natural-language, on the text query
filter_by_natural_language ==
    LET filters == parse_natural_language_query(query)
        conflicting ==
            /\ HasKey(filters, "min_length")
            /\ HasKey(filters, "max_length")
            /\ Get(filters, "min_length") > Get(filters, "max_length")
    IN  /\ parsed' = filters
        /\ last' =
             IF filters = <<>>
             THEN Result("main", "interpret", query, NoParams,
                         400, "raised HTTPException(400)", <<>>)
             ELSE IF conflicting
             THEN Result("main", "interpret", query, NoParams,
                         422, "raised HTTPException(422)", <<>>)
             ELSE Result("main", "interpret", query, NoParams,
                         200, "returned",
                         apply_filters(string_storage, filters))
        /\ UNCHANGED <<string_storage, STORE, now, query, req, callers>>

\* services/nlp_parser.py parse_natural_language_query, on the text query
nlp_parse ==
    /\ parsed' = nlp_parse_natural_language_query(query)
    /\ last' = Result("nlp_parser", "interpret", query, NoParams,
                      0, "returned", <<>>)
    /\ UNCHANGED <<string_storage, STORE, now, query, req, callers>>

InitInterp ==
    /\ string_storage = <<>>
    /\ STORE = <<>>
    /\ now = 0
    /\ last = NoCall
    /\ query \in Queries
    /\ parsed = <<>>
    /\ req = <<>>
    /\ callers = NoCallers

NextInterp ==
    \/ filter_by_natural_language
    \/ nlp_parse

SpecInterp == InitInterp /\ [][NextInterp]_vars

----------------------------------------------------------------------------
(* Concurrent create calls carrying the same value *)

Callers == 1..NumCallers

InitConc ==
    /\ string_storage = <<>>
    /\ STORE = <<>>
    /\ now = 0
    /\ last = NoCall
    /\ query = <<>>
    /\ parsed = <<>>
    /\ req \in Values
    /\ callers \in [Callers -> { [svc |-> svc, pc |-> "start", outcome |-> "none"] :
                                  svc \in {"main", "storage"} }]

\* POST /strings: a coroutine with no await, one step of the event loop
ConcCreateString(c) ==
    LET r == create_string_effect(string_storage, req, now)
    IN  /\ callers[c].svc = "main"
        /\ callers[c].pc = "start"
        /\ string_storage' = r.storage
        /\ callers' = [callers EXCEPT ![c].pc = "done",
                                      ![c].outcome = r.outcome]
        /\ UNCHANGED <<STORE, now, last, query, parsed, req>>

\* StorageService.create_string, lines 18-21, on a thread of its own
ConcStorageCheck(c) ==
    /\ callers[c].svc = "storage"
    /\ callers[c].pc = "start"
    /\ callers' =
         IF storage_create_check(STORE, req)
         THEN [callers EXCEPT ![c].pc = "done",
                              ![c].outcome = "raised ValueError"]
         ELSE [callers EXCEPT ![c].pc = "checked"]
    /\ UNCHANGED <<string_storage, STORE, now, last, query, parsed, req>>

\* StorageService.create_string, lines 22-26, on the same thread
ConcStorageInsert(c) ==
    LET r == storage_create_insert(STORE, req, now)
    IN  /\ callers[c].svc = "storage"
        /\ callers[c].pc = "checked"
        /\ STORE' = r.store
        /\ callers' = [callers EXCEPT ![c].pc = "done",
                                      ![c].outcome = r.outcome]
        /\ UNCHANGED <<string_storage, now, last, query, parsed, req>>

NextConc ==
    \/ \E c \in Callers : ConcCreateString(c)
    \/ \E c \in Callers : ConcStorageCheck(c)
    \/ \E c \in Callers : ConcStorageInsert(c)
    \/ Tick

SpecConc == InitConc /\ [][NextConc]_vars

----------------------------------------------------------------------------
(* Vocabulary of the properties *)

Services == {"main", "storage"}

Store(svc) == IF svc = "main" THEN string_storage ELSE STORE

Created(r) == r.outcome = "returned"

\* the duplicate check of create rejected the call
AlreadyExists(r) ==
    \/ r.svc = "main" /\ r.outcome = "raised HTTPException(409)"
    \/ r.svc = "storage" /\ r.outcome = "raised ValueError"

Deleted(r) ==
    \/ r.svc = "main" /\ r.status = 204
    \/ r.svc = "storage" /\ r.outcome = "returned True"

NotFound(r) ==
    \/ r.svc = "main" /\ r.status = 404
    \/ r.svc = "storage" /\ r.outcome \in {"returned None", "returned False"}

\* this step is a call of op on svc
CallStep(svc, op) == last' # last /\ last'.svc = svc /\ last'.op = op

\* a record's characterFrequency map
FrequencyOf(svc, rec) ==
    IF svc = "main" THEN rec.properties.character_frequency_map
    ELSE rec.properties.character_frequencies

\* the record satisfies every predicate that is set in p
Satisfies(svc, rec, p) ==
    /\ p.is_palindrome # <<>> =>
         rec.properties.is_palindrome = p.is_palindrome[1]
    /\ p.min_length # <<>> => rec.properties.length >= p.min_length[1]
    /\ p.max_length # <<>> => rec.properties.length <= p.max_length[1]
    /\ p.word_count # <<>> => rec.properties.word_count = p.word_count[1]
    /\ p.contains_character # <<>> =>
         \E c \in DOMAIN FrequencyOf(svc, rec) :
             <<c>> = p.contains_character[1]

----------------------------------------------------------------------------
(* C1 *)

AllDone == \A c \in Callers : callers[c].pc = "done"

CallersOf(svc) == { c \in Callers : callers[c].svc = svc }

CreateOnce(svc) ==
    (AllDone /\ Cardinality(CallersOf(svc)) >= 2) =>
        /\ Cardinality({ c \in CallersOf(svc) :
                           callers[c].outcome = "returned" }) = 1
        /\ \A c \in CallersOf(svc) :
               \/ callers[c].outcome = "returned"
               \/ AlreadyExists([svc |-> svc, outcome |-> callers[c].outcome])
        /\ Cardinality({ i \in DOMAIN Store(svc) :
                           Store(svc)[i].id = compute_sha256(req) }) = 1

\* C1: of N >= 2 callers that concurrently create the same value on a store
\* not holding it, exactly one succeeds, the others observe AlreadyExists, and
\* the store ends with exactly one record for the value.
C1_ExactlyOneCreateSucceeds == \A svc \in Services : CreateOnce(svc)

----------------------------------------------------------------------------
(* C2 *)

\* C2: a create of a value the store does not hold succeeds and inserts the
\* record under the SHA-256 id of the value, so the size grows by one; a
\* create of a value the store holds returns AlreadyExists and leaves the
\* store unchanged.
C2_SecondCreateAlreadyExists ==
    [][ \A svc \in Services :
          CallStep(svc, "create") =>
            LET id == compute_sha256(last'.value)
            IN  IF id \notin Keys(Store(svc))
                THEN /\ Created(last')
                     /\ Len(Store(svc)') = Len(Store(svc)) + 1
                     /\ id \in Keys(Store(svc)')
                     /\ last'.data = <<Lookup(Store(svc)', id)>>
                ELSE /\ AlreadyExists(last')
                     /\ Store(svc)' = Store(svc) ]_vars

----------------------------------------------------------------------------
(* C3 *)

\* C3: delete of an id the store holds succeeds and removes the record; a get
\* or delete of an id the store does not hold returns NotFound; and an absent
\* id stays absent until a create of its value succeeds.
C3_DeleteThenNotFound ==
    [][ \A svc \in Services :
          /\ CallStep(svc, "delete") =>
               LET id == compute_sha256(last'.value)
               IN  IF id \in Keys(Store(svc))
                   THEN /\ Deleted(last')
                        /\ Keys(Store(svc)') = Keys(Store(svc)) \ {id}
                   ELSE /\ NotFound(last')
                        /\ Store(svc)' = Store(svc)
          /\ CallStep(svc, "get") =>
               (compute_sha256(last'.value) \notin Keys(Store(svc)) =>
                    NotFound(last') /\ Store(svc)' = Store(svc))
          /\ \A value \in Values :
               (/\ compute_sha256(value) \notin Keys(Store(svc))
                /\ compute_sha256(value) \in Keys(Store(svc)')) =>
                   /\ CallStep(svc, "create")
                   /\ last'.value = value
                   /\ Created(last') ]_vars

\* a delete has succeeded and the store no longer holds the record
C3_Witness ==
    /\ last.svc = "main"
    /\ last.op = "delete"
    /\ Deleted(last)
    /\ compute_sha256(last.value) \notin Keys(string_storage)
    /\ string_storage # <<>>

----------------------------------------------------------------------------
(* C4 *)

\* C4: a stored record stays as it was created (id, value, derived properties
\* and createdAt) across every call; it leaves the store only by a successful
\* delete of its id, and a create of a present id does not overwrite it.
C4_RecordsImmutable ==
    [][ \A svc \in Services :
          \A i \in DOMAIN Store(svc) :
            LET rec == Store(svc)[i]
            IN  IF rec.id \in Keys(Store(svc)')
                THEN Lookup(Store(svc)', rec.id) = rec
                ELSE /\ CallStep(svc, "delete")
                     /\ compute_sha256(last'.value) = rec.id
                     /\ Deleted(last') ]_vars

\* a create was rejected after the clock had moved on, and the record still
\* carries the createdAt of its creation
C4_Witness ==
    /\ last.svc = "main"
    /\ last.op = "create"
    /\ AlreadyExists(last)
    /\ compute_sha256(last.value) \in Keys(string_storage)
    /\ Lookup(string_storage, compute_sha256(last.value)).created_at < now

----------------------------------------------------------------------------
(* C5 *)

\* C5: a listing returns exactly the stored records that satisfy all the set
\* predicates together, in their stored order; with no predicate set it
\* returns every record, unchanged and in order.
C5_FiltersComposeByAnd ==
    last.op = "list" =>
        /\ last.data =
             SelectSeq(Store(last.svc),
                       LAMBDA rec : Satisfies(last.svc, rec, last.params))
        /\ last.params = NoParams => last.data = Store(last.svc)

\* a listing under two predicates kept some records and dropped others
C5_Witness ==
    /\ last.svc = "main"
    /\ last.op = "list"
    /\ last.params.is_palindrome = <<TRUE>>
    /\ last.params.min_length # <<>>
    /\ last.data # <<>>
    /\ Len(last.data) < Len(string_storage)
    /\ \E i \in DOMAIN string_storage :
         /\ string_storage[i].properties.is_palindrome
         /\ string_storage[i].properties.length < last.params.min_length[1]

----------------------------------------------------------------------------
(* C6 *)

\* C6: under containsCharacter = c every returned record has c as a key of
\* its characterFrequency map, c occurring in its value in that very case;
\* and when c is the only predicate set, every stored record with that key
\* is returned.
C6_ContainsCharacter ==
    (last.op = "list" /\ last.params.contains_character # <<>>) =>
        LET c == last.params.contains_character[1][1]
            only == last.params =
                      [NoParams EXCEPT !.contains_character =
                                          last.params.contains_character]
        IN  /\ \A i \in DOMAIN last.data :
                 /\ c \in DOMAIN FrequencyOf(last.svc, last.data[i])
                 /\ last.svc = "main" => c \in Range(last.data[i].value)
            /\ \A i \in DOMAIN Store(last.svc) :
                 (only /\ c \in DOMAIN FrequencyOf(last.svc, Store(last.svc)[i]))
                     => \E j \in DOMAIN last.data :
                            last.data[j] = Store(last.svc)[i]

\* a listing under containsCharacter = "a" alone returned a record and left
\* out a stored record that holds only "A"
C6_Witness ==
    /\ last.svc = "main"
    /\ last.op = "list"
    /\ last.params = [NoParams EXCEPT !.contains_character = <<(<<"a">>)>>]
    /\ last.data # <<>>
    /\ \E i \in DOMAIN string_storage :
         /\ "A" \in Range(string_storage[i].value)
         /\ "a" \notin Range(string_storage[i].value)
         /\ \A j \in DOMAIN last.data : last.data[j] # string_storage[i]

----------------------------------------------------------------------------
(* C7 *)

\* the numbers N for which the text holds prefix followed by the digits of N
NumbersAfter(q, prefix) ==
    { ParseInt(SubSeq(q, i + Len(prefix) + 1,
                      i + Len(prefix) + DigitRun(q, i + Len(prefix)))) :
        i \in { j \in 0..(Len(q) - 1) :
                  StartsAt(q, prefix, j) /\ DigitRun(q, j + Len(prefix)) >= 1 } }

\* C7: a text whose "longer than" phrases all name one number N is
\* interpreted with minLength = N + 1, and a text whose "shorter than"
\* phrases all name one number N with maxLength = N - 1.
C7_StrictLengthBounds ==
    last.op = "interpret" =>
        LET q == Lower(query)
        IN  /\ \A N \in NumbersAfter(q, T_longer_than) :
                 NumbersAfter(q, T_longer_than) = {N} =>
                     /\ HasKey(parsed, "min_length")
                     /\ Get(parsed, "min_length") = N + 1
            /\ \A N \in NumbersAfter(q, T_shorter_than) :
                 NumbersAfter(q, T_shorter_than) = {N} =>
                     /\ HasKey(parsed, "max_length")
                     /\ Get(parsed, "max_length") = N - 1

----------------------------------------------------------------------------
(* C8 *)

\* the positions at which a numeric pattern "<N> word" starts
NumericWordStarts(q) ==
    { i \in 0..(Len(q) - 1) :
        /\ DigitRun(q, i) >= 1
        /\ SpaceRun(q, i + DigitRun(q, i)) >= 1
        /\ StartsAt(q, T_word,
                    i + DigitRun(q, i) + SpaceRun(q, i + DigitRun(q, i))) }

\* the wordCount the ordered rules give: <<n>>, or <<>> when none applies
RuledWordCount(q) ==
    IF Contains(q, T_single_word) \/ Contains(q, T_one_word) THEN <<1>>
    ELSE IF \/ Contains(q, T_two_word)
            \/ Contains(q, T_two_words)
            \/ Contains(q, T_2_word)
         THEN <<2>>
    ELSE IF NumericWordStarts(q) # {}
         THEN LET i == Leftmost(NumericWordStarts(q))
              IN  <<ParseInt(SubSeq(q, i + 1, i + DigitRun(q, i)))>>
    ELSE <<>>

\* C8: wordCount is set by the ordered rules: "single word" or "one word"
\* gives 1; otherwise "two word", "two words" or "2 word" gives 2; otherwise
\* the first "<N> word(s)" pattern gives N.
C8_WordCountRules ==
    (last.op = "interpret" /\ RuledWordCount(Lower(query)) # <<>>) =>
        /\ HasKey(parsed, "word_count")
        /\ Get(parsed, "word_count") = RuledWordCount(Lower(query))[1]

----------------------------------------------------------------------------
(* C9 *)

\* a word boundary at position p: the end of the text or whitespace
EndsWordAt(q, p) == p >= Len(q) \/ IsSpace(q[p + 1])

\* the text holds "contain(s/ing) [the] [letter] X" for a single letter X
HasLetterPhrase(q) ==
    \E verb \in {T_contain, T_contains, T_contain \o T_ing} :
      \E the \in {<<>>, <<" ">> \o T_the} :
        \E letter \in {<<>>, <<" ">> \o T_letter} :
          \E X \in LowerSet :
            \E i \in 0..(Len(q) - 1) :
              LET phrase == verb \o the \o letter \o <<" ", X>>
              IN  StartsAt(q, phrase, i) /\ EndsWordAt(q, i + Len(phrase))

\* C9: a text that holds "first vowel" with the word "contains", and also a
\* phrase "contain(s/ing) [the] [letter] X", is interpreted with
\* containsCharacter = "a": the letter rule does not override the field.
C9_FirstVowelTakesPrecedence ==
    LET q == Lower(query)
    IN  (/\ last.op = "interpret"
         /\ Contains(q, T_first_vowel)
         /\ Contains(q, T_contains)
         /\ HasLetterPhrase(q)) =>
            /\ HasKey(parsed, "contains_character")
            /\ Get(parsed, "contains_character") = <<"a">>

----------------------------------------------------------------------------
(* C10 *)

\* the value, lowercased and stripped of every character that is not a
\* letter or a digit, reads the same backwards
CanonicalPalindrome(value) ==
    LET normalized == SelectSeq(Lower(value), IsAlnum)
    IN  normalized = Reverse(normalized)

\* C10: every analysed record has isPalindrome true iff the value, lowercased
\* and stripped of non-alphanumerics, equals its reverse, whichever analysis
\* path built the record.
C10_OneNormalization ==
    /\ (last.op = "create" /\ Created(last)) =>
         last.data[1].properties.is_palindrome = CanonicalPalindrome(last.value)
    /\ \A i \in DOMAIN string_storage :
         string_storage[i].properties.is_palindrome
           = CanonicalPalindrome(string_storage[i].value)
    /\ \A value \in Values :
         utils_analyze_string(value).is_palindrome = CanonicalPalindrome(value)

====
